---- MODULE Spec2Model ----
(***************************************************************************)
(* ChromeCrawler (w3af/core/controllers/chrome/crawler/main.py): the       *)
(* browser-driven crawl orchestrator.  The model covers the public API     *)
(* (crawl, terminate), the eligibility gate, the synchronous and the       *)
(* asynchronous dispatch of one crawl session per strategy, the session    *)
(* itself (acquire, initial load, strategy, cleanup, release) and the      *)
(* shutdown sequence.  Collaborators that live outside main.py (worker     *)
(* Pool, ChromePool, the renderer, the strategies, the traffic queue) are  *)
(* modelled by the calls main.py makes on them and by the outcome of each  *)
(* call, which is an input.                                                *)
(***************************************************************************)
EXTENDS Naturals, Integers, Sequences, FiniteSets, TLC

\* ------------------------------------------------------------------ bounds

\* Total number of crawl() / terminate() invocations in one behaviour.
MaxCalls == 3
\* ... and by the threads that use the crawler at once.
RaceCalls == 2
\* Number of threads that call the public API.
NCallers == 2
\* Largest max_instances argument given to the constructor.
MaxInstancesArg == 12

\* --------------------------------------------------------------- constants

None == "None"

WORKER_MAX_TASKS == 5
MIN_WORKER_THREADS == 1
\* BaseConsumer.THREAD_POOL_SIZE, defined outside main.py.
THREAD_POOL_SIZE == 10
MIN_CHROME_POOL_INSTANCES == THREAD_POOL_SIZE

\* max_instances=None: Python 2 orders None below every number, so None is
\* represented by a number below every capacity.
NoneInstances == -1

\* ------------------------------------------------------------------ inputs

Callers == 1 .. NCallers

Methods == {"GET", "POST"}

\* Content types, as sequences of characters.
CT_text_html == <<"t","e","x","t","/","h","t","m","l">>
CT_xhtml == <<"a","p","p","/","x","H","t","m","l","+","x","m","l">>
CT_image_png == <<"i","m","a","g","e","/","p","n","g">>
CT_text_htm == <<"t","e","x","t","/","h","t","m">>
ContentTypes == {CT_text_html, CT_xhtml, CT_image_png, CT_text_htm}

Uris == {"u1", "u2"}
Queues == {"q1", "q2"}
\* debugging_id argument of crawl(): absent, or given by the caller
DebuggingIds == {None, "did1"}
\* values rand_alnum(8) may return
RandIds == {"rnd1"}

\* ---------------------------------------------------------- pure functions

Max(a, b) == IF a >= b THEN a ELSE b

UpperCase == <<"A","B","C","D","E","F","G","H","I","J","K","L","M",
               "N","O","P","Q","R","S","T","U","V","W","X","Y","Z">>
LowerCase == <<"a","b","c","d","e","f","g","h","i","j","k","l","m",
               "n","o","p","q","r","s","t","u","v","w","x","y","z">>

\* str.lower() on one character
LowerChar(c) ==
    IF \E i \in 1 .. Len(UpperCase) : UpperCase[i] = c
    THEN LowerCase[CHOOSE i \in 1 .. Len(UpperCase) : UpperCase[i] = c]
    ELSE c

\* str.lower()
Lower(s) == [i \in 1 .. Len(s) |-> LowerChar(s[i])]

\* sub in s
Contains(sub, s) ==
    \E i \in 0 .. Len(s) :
        /\ i + Len(sub) <= Len(s)
        /\ SubSeq(s, i + 1, i + Len(sub)) = sub

HTML == <<"h","t","m","l">>

\* A gate that lets every request method through.
Renderable_any_method(method, content_type) ==
    Contains(HTML, Lower(content_type))

\* The first two tests of _should_crawl_with_chrome: the request and the
\* response are of a kind Chrome can crawl.
Renderable(method, content_type) ==
    /\ method = "GET"
    /\ Contains(HTML, Lower(content_type))

\* A gate that does not look at the URIs seen so far.
ShouldCrawl_ignores_seen(method, content_type, uri, seen) ==
    Renderable(method, content_type)

\* The tests of _should_crawl_with_chrome, on the set of URIs seen so far.
ShouldCrawl(method, content_type, uri, seen) ==
    /\ Renderable(method, content_type)
    /\ uri \notin seen

\* A crawl() without the test of line 107.
InTerminatePhase_never(wp) == FALSE

\* crawl(), line 107: the crawler has been terminated.
InTerminatePhase(wp) == wp = None

\* debugging_id or rand_alnum(8)
IsFalsy(d) == d \in {None, ""}
AssignDebuggingId(d, rnd) == IF IsFalsy(d) THEN rnd ELSE d

\* A dispatch that knows the JavaScript strategy only.
get_crawl_strategy_instances_js_only(debugging_id) ==
    << [name |-> "ChromeCrawlerJS", did |-> debugging_id] >>

\* get_crawl_strategy_instances: the strategies, in the order they are yielded
get_crawl_strategy_instances(debugging_id) ==
    << [name |-> "ChromeCrawlerJS", did |-> debugging_id],
       [name |-> "ChromeCrawlerDOMDump", did |-> debugging_id] >>

NStrategies == Len(get_crawl_strategy_instances(None))

\* __init__: the sizing of the two pools
InitMaxInstances(max_instances) == Max(max_instances, MIN_CHROME_POOL_INSTANCES)

\* A sizing that gives the worker pool as many threads as there are renderers.
InitMaxWorkerThreads_no_spare(max_instances) ==
    Max(InitMaxInstances(max_instances), MIN_WORKER_THREADS)

InitMaxWorkerThreads(max_instances) ==
    Max(InitMaxInstances(max_instances) - 1, MIN_WORKER_THREADS)
InitWorkerInqueueMaxSize(max_instances) == InitMaxWorkerThreads(max_instances) * 2

\* ------------------------------------------------------------- the session

\* Exception classes the collaborators may raise.
SoftRenderer == {"ChromeInterfaceException", "ChromeInterfaceTimeout"}
SoftStrategy == SoftRenderer \cup {"ChromeCrawlerException"}
Exceptions == SoftStrategy \cup {"RuntimeError"}

\* A script is the outcome of every renderer / strategy call of one session:
\* "ok" (for wait_for_load "True" or "False"), an exception class, or "-" for
\* a call the session never reaches.
Raises(r) == r \in Exceptions

NoScript ==
    [load_url |-> "-", wait_for_load |-> "-", stop |-> "-", crawl |-> "-",
     load_about_blank |-> "-"]

\* The scripts: one outcome for every call up to the first that raises.
Scripts ==
    LET Waited == {[NoScript EXCEPT !.load_url = "ok", !.wait_for_load = w] :
                      w \in {"True", "False"}}
        Stopped == {[o EXCEPT !.stop = "ok"] : o \in Waited}
        Crawled == {[o EXCEPT !.crawl = "ok"] : o \in Stopped}
    IN  {[NoScript EXCEPT !.load_url = e] : e \in Exceptions}
        \cup {[NoScript EXCEPT !.load_url = "ok", !.wait_for_load = e] :
                 e \in Exceptions}
        \cup {[o EXCEPT !.stop = e] : o \in Waited, e \in Exceptions}
        \cup {[o EXCEPT !.crawl = e] : o \in Stopped, e \in Exceptions}
        \cup {[o EXCEPT !.load_about_blank = e] :
                 o \in Crawled, e \in {"ok"} \cup Exceptions}

Call(op, arg) == [op |-> op, arg |-> arg]
R(calls, exc) == [calls |-> calls, exc |-> exc]

\* A handler that re-raises without evicting the renderer.
RemoveAndRaise_no_remove(cp, calls, reason, exc) == R(calls, exc)

\* self._chrome_pool.remove(chrome, reason) followed by `raise`: the call is
\* made on the pool reference cp; on a cleared reference the attribute access
\* fails and its error replaces the one being handled.
RemoveAndRaise(cp, calls, reason, exc) ==
    IF cp = None
    THEN R(calls, "AttributeError")
    ELSE R(Append(calls, Call("remove", reason)), exc)

\* An initial load that gives up on a page that did not finish loading.
_initial_page_load_strict(cp, url, did, o) ==
    LET c1 == <<Call("set_debugging_id", did), Call("load_url", url)>>
        c2 == Append(c1, Call("wait_for_load", ""))
        c3 == Append(c2, Call("stop", ""))
    IN  IF o.load_url \in SoftRenderer
        THEN RemoveAndRaise(cp, c1, "failed to load URL", o.load_url)
        ELSE IF Raises(o.load_url) THEN R(c1, o.load_url)
        ELSE IF o.wait_for_load \in SoftRenderer
        THEN RemoveAndRaise(cp, c2, "exception raised", o.wait_for_load)
        ELSE IF Raises(o.wait_for_load) THEN R(c2, o.wait_for_load)
        ELSE IF o.wait_for_load = "False"
        THEN RemoveAndRaise(cp, c2, "exception raised", "ChromeInterfaceTimeout")
        ELSE IF o.stop \in SoftRenderer
        THEN RemoveAndRaise(cp, c3, "failed to stop", o.stop)
        ELSE IF Raises(o.stop) THEN R(c3, o.stop)
        ELSE R(c3, "none")

_initial_page_load(cp, url, did, o) ==
    LET c1 == <<Call("set_debugging_id", did), Call("load_url", url)>>
        c2 == Append(c1, Call("wait_for_load", ""))
        c3 == Append(c2, Call("stop", ""))
    IN  IF o.load_url \in SoftRenderer
        THEN RemoveAndRaise(cp, c1, "failed to load URL", o.load_url)
        ELSE IF Raises(o.load_url) THEN R(c1, o.load_url)
        ELSE IF o.wait_for_load \in SoftRenderer
        THEN RemoveAndRaise(cp, c2, "exception raised", o.wait_for_load)
        ELSE IF Raises(o.wait_for_load) THEN R(c2, o.wait_for_load)
        ELSE IF o.stop \in SoftRenderer
        THEN RemoveAndRaise(cp, c3, "failed to stop", o.stop)
        ELSE IF Raises(o.stop) THEN R(c3, o.stop)
        ELSE R(c3, "none")

\* A cleanup that re-raises a soft error without evicting the renderer.
_cleanup_keeps_renderer(cp, calls, o) ==
    LET c == Append(calls, Call("load_about_blank", ""))
    IN  IF Raises(o.load_about_blank) THEN R(c, o.load_about_blank)
        ELSE R(c, "none")

_cleanup(cp, calls, o) ==
    LET c == Append(calls, Call("load_about_blank", ""))
    IN  IF o.load_about_blank \in SoftRenderer
        THEN RemoveAndRaise(cp, c, "failed to load about:blank", o.load_about_blank)
        ELSE IF Raises(o.load_about_blank) THEN R(c, o.load_about_blank)
        ELSE R(c, "none")

\* A session that treats every error of the strategy as unanticipated.
_crawl_with_strategy_and_chrome_no_soft_crawl(cp, url, did, o) ==
    LET load == _initial_page_load(cp, url, did, o)
        c4 == Append(load.calls, Call("crawl", url))
        cl == _cleanup(cp, c4, o)
    IN  IF load.exc \in SoftRenderer THEN R(load.calls, "none")
        ELSE IF load.exc # "none" THEN load
        ELSE IF Raises(o.crawl)
        THEN RemoveAndRaise(cp, c4, "failed to crawl", o.crawl)
        ELSE IF cl.exc \in SoftRenderer THEN R(cl.calls, "none")
        ELSE cl

_crawl_with_strategy_and_chrome(cp, url, did, o) ==
    LET load == _initial_page_load(cp, url, did, o)
        c4 == Append(load.calls, Call("crawl", url))
        cl == _cleanup(cp, c4, o)
    IN  IF load.exc \in SoftRenderer THEN R(load.calls, "none")
        ELSE IF load.exc # "none" THEN load
        ELSE IF o.crawl \in SoftStrategy THEN R(c4, "none")
        ELSE IF Raises(o.crawl)
        THEN RemoveAndRaise(cp, c4, "failed to crawl", o.crawl)
        ELSE IF cl.exc \in SoftRenderer THEN R(cl.calls, "none")
        ELSE cl

\* A session that frees the renderer whatever happened.
_crawl_with_strategy_always_frees(cp, r) ==
    IF cp = None THEN R(r.calls, "AttributeError")
    ELSE R(Append(r.calls, Call("free", "")), r.exc)

\* _crawl_with_strategy, lines 225-233, from the point where
\* _crawl_with_strategy_and_chrome has ended with the calls and the error of
\* r: the except and else clauses read self._chrome_pool again, as cp.  The
\* result is the calls made on the renderer, the strategy and the pool, and
\* the error that leaves the method ("none" when it returns).
_crawl_with_strategy(cp, r) ==
    IF r.exc # "none"
    THEN RemoveAndRaise(cp, r.calls, "generic exception", r.exc)
    ELSE IF cp = None THEN R(r.calls, "AttributeError")
    ELSE R(Append(r.calls, Call("free", "")), "none")

\* _crawl_with_strategy_and_chrome has called self._chrome_pool.remove: the
\* session reads self._chrome_pool once more, at line 229 or 233.
PoolCalled(r) == r.calls # << >> /\ r.calls[Len(r.calls)].op = "remove"

\* _get_chrome_from_pool: g is the outcome of self._chrome_pool.get
GetOutcomes == {"ok", "ChromePoolException"}
\* An acquisition that goes on without a renderer when the pool has none.
_get_chrome_from_pool_swallows(cp, g) ==
    IF cp = None THEN "AttributeError" ELSE "none"

_get_chrome_from_pool(cp, g) ==
    IF cp = None THEN "AttributeError"
    ELSE IF g = "ChromePoolException" THEN "ChromeCrawlerException"
    ELSE IF g = "ok" THEN "none"
    ELSE g

\* A wrapper that swallows the error without recording it.
wrapper_drops_error(exc, fuzzable_request, did) ==
    [ret |-> exc = "none", put |-> << >>, raised |-> "none"]

\* A wrapper that records the error and lets it go on to the worker.
wrapper_reraises(exc, fuzzable_request, did) ==
    [ret |-> exc = "none",
     put |-> IF exc = "none" THEN << >>
             ELSE << [request |-> fuzzable_request, e |-> exc, did |-> did] >>,
     raised |-> exc]

\* _crawl_with_strategy_wrapper, given the error exc that left
\* _crawl_with_strategy: what it returns, what it puts on the traffic queue
\* and the error that leaves the wrapper itself.
_crawl_with_strategy_wrapper(exc, fuzzable_request, did) ==
    IF exc # "none"
    THEN [ret |-> FALSE,
          put |-> << [request |-> fuzzable_request, e |-> exc, did |-> did] >>,
          raised |-> "none"]
    ELSE [ret |-> TRUE, put |-> << >>, raised |-> "none"]

\* ------------------------------------------------------------------- state

VARIABLES
    worker_pool,            \* self._worker_pool: "Pool" or None
    chrome_pool,            \* self._chrome_pool: "ChromePool" or None
    crawler_state,          \* self._crawler_state: "CrawlerState" or None
    uri_opener,             \* self._uri_opener: "uri_opener" or None
    crawled_with_chrome,    \* self._crawled_with_chrome: the URIs seen
    pool,                   \* the worker Pool object
    running,                \* the sessions the pool's workers execute
    chrome,                 \* the ChromePool object, with the max_instances
                            \* argument the crawler was constructed with
    traffic,                \* the traffic queues handed to crawl()
    pc,                     \* where each caller thread is
    call,                   \* the call each caller thread is in: its arguments
    result,                 \* ... what the call returned or raised
    idx,                    \* ... the strategy the dispatch loop is at
    sess,                   \* ... the session a synchronous crawl runs
    tlog,                   \* ... the shutdown calls terminate() has made
    local_pool,             \* ... the local `pool` of _terminate_worker_pool
    ncalls                  \* crawl() / terminate() invocations so far

vars == <<worker_pool, chrome_pool, crawler_state, uri_opener,
          crawled_with_chrome, pool, running, chrome, traffic,
          pc, call, result, idx, sess, tlog, local_pool, ncalls>>

refs == <<worker_pool, chrome_pool, crawler_state, uri_opener>>

NoCall ==
    [op |-> "none", method |-> "-", content_type |-> << >>, uri |-> "-",
     req_uri |-> "-", q |-> "-", did |-> "-", async |-> FALSE]

NoSession ==
    [phase |-> "none", id |-> 0, strategy |-> "-", did |-> "-",
     request |-> [method |-> "-", uri |-> "-"], q |-> "-",
     script |-> NoScript, calls |-> << >>, exc |-> "none", ret |-> "-",
     pending |-> << >>, put |-> << >>, raised |-> "none"]

\* The task (crawl_strategy, fuzzable_request, http_traffic_queue) that
\* _crawl and _crawl_async hand to _crawl_with_strategy_wrapper.
Task(strategy, fuzzable_request, q) ==
    [NoSession EXCEPT !.phase = "start", !.strategy = strategy.name,
                      !.did = strategy.did, !.request = fuzzable_request,
                      !.q = q]

\* __init__(uri_opener, max_instances)
Construct(max_instances) ==
    /\ worker_pool = "Pool"
    /\ chrome_pool = "ChromePool"
    /\ crawler_state = "CrawlerState"
    /\ uri_opener = "uri_opener"
    /\ crawled_with_chrome = {}
    /\ pool = [state |-> "RUN", inqueue |-> << >>,
               processes |-> InitMaxWorkerThreads(max_instances),
               max_queued_tasks |-> InitWorkerInqueueMaxSize(max_instances),
               maxtasksperchild |-> WORKER_MAX_TASKS,
               live |-> InitMaxWorkerThreads(max_instances),
               accepted |-> 0, completed |-> 0]
    /\ running = {}
    /\ chrome = [max_instances |-> InitMaxInstances(max_instances),
                 terminated |-> FALSE,
                 lost |-> [workers |-> 0, callers |-> 0],
                 requested |-> max_instances]

Idle ==
    /\ traffic = [q \in Queues |-> << >>]
    /\ pc = [t \in Callers |-> "idle"]
    /\ call = [t \in Callers |-> NoCall]
    /\ result = [t \in Callers |-> "-"]
    /\ idx = [t \in Callers |-> 0]
    /\ sess = [t \in Callers |-> NoSession]
    /\ tlog = [t \in Callers |-> << >>]
    /\ local_pool = [t \in Callers |-> "-"]
    /\ ncalls = 0

Init == Construct(NoneInstances) /\ Idle

\* ----------------------------------------------------------------- helpers

\* Session s obtained a renderer from ChromePool.get and has handed it to
\* neither ChromePool.remove nor ChromePool.free.
HoldsRenderer(s) ==
    /\ \E i \in 1 .. Len(s.calls) : s.calls[i].op = "get"
    /\ \A i \in 1 .. Len(s.calls) : s.calls[i].op \notin {"remove", "free"}

\* Renderers out of the pool: obtained by a session and not given back,
\* those of sessions that ended without a remove or free included (the call
\* of line 229 or 233 failed on self._chrome_pool = None).
HeldByWorkers ==
    Cardinality({s \in running : HoldsRenderer(s)}) + chrome.lost.workers
HeldByCallers ==
    Cardinality({t \in Callers : sess[t].phase # "done" /\ HoldsRenderer(sess[t])})
        + chrome.lost.callers
Held == HeldByWorkers + HeldByCallers

\* Tasks the pool has accepted and not completed (get_running_task_count).
Pending == pool.accepted - pool.completed

\* The end of a session: _crawl_with_strategy_wrapper handles the error exc
\* that left _crawl_with_strategy.
Finish(s, o, calls, exc) ==
    LET w == _crawl_with_strategy_wrapper(exc, s.request, s.did)
    IN  [s EXCEPT !.phase = "done", !.script = o, !.calls = calls, !.exc = exc,
                  !.ret = IF w.ret THEN "True" ELSE "False",
                  !.put = w.put, !.raised = w.raised]

\* An error exc left _crawl_with_strategy: the wrapper is at its handler,
\* lines 199-208, and has not put the record yet.  Without an error the
\* wrapper returns True, line 211.
End(s, o, calls, exc) ==
    IF exc = "none" THEN Finish(s, o, calls, exc)
    ELSE [s EXCEPT !.phase = "raised", !.script = o, !.calls = calls,
                   !.exc = exc]

\* _get_chrome_from_pool, line 363, first part: session s reads
\* self._chrome_pool and calls get on it, which fails on None.
Acquire(s) ==
    IF chrome_pool = None
    THEN End(s, NoScript, << >>, _get_chrome_from_pool(None, "ok"))
    ELSE [s EXCEPT !.phase = "getting"]

\* _get_chrome_from_pool, lines 363-371: ChromePool.get, called on the pool
\* the session read, returns or raises, g its outcome; the log tells a get
\* that returned a renderer from one that raised.
Get(s, g) ==
    LET e == _get_chrome_from_pool("ChromePool", g)
    IN  IF e = "none"
        THEN [s EXCEPT !.phase = "holding", !.calls = <<Call("get", s.did)>>]
        ELSE End(s, NoScript, <<Call("get_raised", s.did)>>, e)

\* A session has read self._chrome_pool, which referred to the renderer
\* pool, for the call c of remove or free: the call itself comes later, on
\* the pool object the session read, whatever self._chrome_pool is by then.
Stage(s, phase, calls, exc) ==
    [s EXCEPT !.phase = phase,
              !.calls = SubSeq(calls, 1, Len(calls) - 1),
              !.pending = <<calls[Len(calls)]>>,
              !.exc = exc]

\* the except / else clause of _crawl_with_strategy, lines 228-233: the
\* session reads self._chrome_pool for its last call on the renderer pool,
\* and fails on None.
ReleaseSession(s) ==
    LET e == _crawl_with_strategy(chrome_pool, R(s.calls, s.exc))
    IN  IF Len(e.calls) > Len(s.calls)
        THEN Stage(s, "calling", e.calls, e.exc)
        ELSE End(s, s.script, e.calls, e.exc)

\* _crawl_with_strategy_and_chrome for session s, under script o, up to the
\* first read of self._chrome_pool after the get: that of an eviction by
\* _crawl_with_strategy_and_chrome (lines 287, 346, 398, 417, 449), or that
\* of _crawl_with_strategy (lines 229, 233).
RunSession(s, o) ==
    LET r == _crawl_with_strategy_and_chrome(chrome_pool, s.request.uri, s.did, o)
    IN  IF PoolCalled(r)
        THEN Stage([s EXCEPT !.script = o], "evicting", s.calls \o r.calls, r.exc)
        ELSE ReleaseSession([s EXCEPT !.script = o, !.calls = @ \o r.calls,
                                      !.exc = r.exc])

\* ChromePool.remove / ChromePool.free is called for session s, on the pool
\* object the session read: after an eviction the session goes on to lines
\* 228-233, after the call of those lines it leaves _crawl_with_strategy.
CallPool(s) ==
    LET calls == Append(s.calls, s.pending[1])
    IN  IF s.phase = "evicting"
        THEN [s EXCEPT !.phase = "releasing", !.calls = calls,
                       !.pending = << >>]
        ELSE End([s EXCEPT !.pending = << >>], s.script, calls, s.exc)

\* _crawl_with_strategy_wrapper, lines 199-209: the handler of the error
\* that left _crawl_with_strategy.
Handle(s) == Finish(s, s.script, s.calls, s.exc)

\* ChromePool.get returns a renderer only while it has one to give.
CanGet(g) == g = "ok" => Held < chrome.max_instances

\* http_traffic_queue.put(data) for the records session s puts
Put(s) == traffic' = [traffic EXCEPT ![s.q] = @ \o s.put]

\* The renderer pool when session s has ended: a renderer the session never
\* gave back stays out of the pool.
Lose(s, who) ==
    chrome' = IF HoldsRenderer(s) THEN [chrome EXCEPT !.lost[who] = @ + 1]
              ELSE chrome

\* ------------------------------------------------------------------ crawl()

\* crawl(), lines 107-109: the call begins and tests self._worker_pool.  The
\* callers make at most n calls.
CrawlCallWithin(n, t, method, content_type, uri, req_uri, q, did, async) ==
    /\ pc[t] = "idle"
    /\ ncalls < n
    /\ ncalls' = ncalls + 1
    /\ call' = [call EXCEPT ![t] =
                   [op |-> "crawl", method |-> method,
                    content_type |-> content_type, uri |-> uri,
                    req_uri |-> req_uri, q |-> q, did |-> did,
                    async |-> async]]
    /\ IF InTerminatePhase(worker_pool)
       THEN /\ pc' = [pc EXCEPT ![t] = "returned"]
            /\ result' = [result EXCEPT ![t] = "False"]
       ELSE /\ pc' = [pc EXCEPT ![t] = "gate"]
            /\ result' = [result EXCEPT ![t] = "-"]
    /\ UNCHANGED <<refs, crawled_with_chrome, pool, running, chrome, traffic,
                   idx, sess, tlog, local_pool>>

\* crawl() by callers that make at most MaxCalls calls.
CrawlCall(t, method, content_type, uri, req_uri, q, did, async) ==
    CrawlCallWithin(MaxCalls, t, method, content_type, uri, req_uri, q, did, async)

\* _should_crawl_with_chrome, lines 138-148: the three tests.
ShouldCrawlTest(t) ==
    /\ pc[t] = "gate"
    /\ IF ShouldCrawl(call[t].method, call[t].content_type, call[t].uri,
                      crawled_with_chrome)
       THEN /\ pc' = [pc EXCEPT ![t] = "add"]
            /\ UNCHANGED result
       ELSE /\ pc' = [pc EXCEPT ![t] = "returned"]
            /\ result' = [result EXCEPT ![t] = "False"]
    /\ UNCHANGED <<refs, crawled_with_chrome, pool, running, chrome, traffic,
                   call, idx, sess, tlog, local_pool, ncalls>>

\* _should_crawl_with_chrome, line 150, then crawl(), lines 115-119: the URI
\* is marked, the debugging id assigned and the dispatch chosen.
ShouldCrawlAdd(t, rnd) ==
    /\ pc[t] = "add"
    /\ crawled_with_chrome' = crawled_with_chrome \cup {call[t].uri}
    /\ call' = [call EXCEPT ![t].did = AssignDebuggingId(call[t].did, rnd)]
    /\ idx' = [idx EXCEPT ![t] = 1]
    /\ pc' = [pc EXCEPT ![t] = IF call[t].async THEN "apply_async" ELSE "acquire"]
    /\ UNCHANGED <<refs, pool, running, chrome, traffic, result, sess, tlog, local_pool,
                   ncalls>>

\* The task the dispatch loop of caller t is at.
TaskOf(t) ==
    Task(get_crawl_strategy_instances(call[t].did)[idx[t]],
         [method |-> call[t].method, uri |-> call[t].req_uri], call[t].q)

\* _crawl / _crawl_async: the loop goes on to the next strategy, or crawl()
\* returns True; an error that left the wrapper leaves crawl().
LoopNext(t, raised, again) ==
    IF raised # "none"
    THEN /\ pc' = [pc EXCEPT ![t] = "returned"]
         /\ result' = [result EXCEPT ![t] = raised]
         /\ UNCHANGED idx
    ELSE IF idx[t] < NStrategies
    THEN /\ pc' = [pc EXCEPT ![t] = again]
         /\ idx' = [idx EXCEPT ![t] = @ + 1]
         /\ UNCHANGED result
    ELSE /\ pc' = [pc EXCEPT ![t] = "returned"]
         /\ result' = [result EXCEPT ![t] = "True"]
         /\ UNCHANGED idx

\* _crawl_async, line 174, first part: self._worker_pool is read, and
\* apply_async called on it, which fails on None.
ApplyAsync(t) ==
    /\ pc[t] = "apply_async"
    /\ IF worker_pool = None
       THEN /\ pc' = [pc EXCEPT ![t] = "returned"]
            /\ result' = [result EXCEPT ![t] = "AttributeError"]
       ELSE /\ pc' = [pc EXCEPT ![t] = "in_apply_async"]
            /\ UNCHANGED result
    /\ UNCHANGED <<refs, crawled_with_chrome, pool, running, chrome, traffic,
                   call, idx, sess, tlog, local_pool, ncalls>>

\* _crawl_async, lines 172-175, second part: the Pool the thread read takes
\* the task once its queue has room, whatever self._worker_pool is by then.
PoolApplyAsync(t) ==
    /\ pc[t] = "in_apply_async"
    /\ Len(pool.inqueue) < pool.max_queued_tasks
    /\ pool' = [pool EXCEPT
                   !.inqueue = Append(@, [TaskOf(t) EXCEPT !.id = pool.accepted + 1]),
                   !.accepted = @ + 1]
    /\ LoopNext(t, "none", "apply_async")
    /\ UNCHANGED <<refs, crawled_with_chrome, running, chrome, traffic, call,
                   sess, tlog, local_pool, ncalls>>

\* Where the caller's thread goes on with its session s.
SyncGoOn(t, s) ==
    /\ sess' = [sess EXCEPT ![t] = s]
    /\ IF s.phase = "done"
       THEN /\ LoopNext(t, s.raised, "acquire")
            /\ Lose(s, "callers")
       ELSE /\ pc' = [pc EXCEPT ![t] =
                         CASE s.phase = "getting" -> "get"
                           [] s.phase = "holding" -> "run"
                           [] s.phase = "evicting" -> "in_remove"
                           [] s.phase = "releasing" -> "release"
                           [] s.phase = "calling" -> "in_release"
                           [] s.phase = "raised" -> "put"]
            /\ UNCHANGED <<result, idx, chrome>>

\* _crawl, line 184, first part: the session of the current strategy reads
\* self._chrome_pool and asks it for a renderer.
SyncAcquire(t) ==
    /\ pc[t] = "acquire"
    /\ SyncGoOn(t, Acquire(TaskOf(t)))
    /\ UNCHANGED <<refs, crawled_with_chrome, pool, running, traffic, call,
                   tlog, local_pool, ncalls>>

\* _crawl, line 184, second part: ChromePool.get returns or raises.
SyncGet(t, g) ==
    /\ pc[t] = "get"
    /\ CanGet(g)
    /\ SyncGoOn(t, Get(sess[t], g))
    /\ UNCHANGED <<refs, crawled_with_chrome, pool, running, traffic, call,
                   tlog, local_pool, ncalls>>

\* _crawl, line 184, third part: the session runs up to its first read of
\* self._chrome_pool after the get.
SyncRun(t, o) ==
    /\ pc[t] = "run"
    /\ SyncGoOn(t, RunSession(sess[t], o))
    /\ UNCHANGED <<refs, crawled_with_chrome, pool, running, traffic, call,
                   tlog, local_pool, ncalls>>

\* _crawl, line 184, fourth part: the session whose renderer was evicted
\* reads self._chrome_pool for its last call on the renderer pool.
SyncRelease(t) ==
    /\ pc[t] = "release"
    /\ SyncGoOn(t, ReleaseSession(sess[t]))
    /\ UNCHANGED <<refs, crawled_with_chrome, pool, running, traffic, call,
                   tlog, local_pool, ncalls>>

\* _crawl, line 184: the remove or free the session read self._chrome_pool
\* for is called.
SyncPoolCall(t) ==
    /\ pc[t] \in {"in_remove", "in_release"}
    /\ SyncGoOn(t, CallPool(sess[t]))
    /\ UNCHANGED <<refs, crawled_with_chrome, pool, running, traffic, call,
                   tlog, local_pool, ncalls>>

\* _crawl, line 184, last part: the wrapper puts the record of the error and
\* returns False, and the loop goes on.
SyncPut(t) ==
    /\ pc[t] = "put"
    /\ Put(Handle(sess[t]))
    /\ SyncGoOn(t, Handle(sess[t]))
    /\ UNCHANGED <<refs, crawled_with_chrome, pool, running, call, tlog,
                   local_pool, ncalls>>

\* The caller takes the result of its call.
Return(t) ==
    /\ pc[t] = "returned"
    /\ pc' = [pc EXCEPT ![t] = "idle"]
    /\ call' = [call EXCEPT ![t] = NoCall]
    /\ result' = [result EXCEPT ![t] = "-"]
    /\ idx' = [idx EXCEPT ![t] = 0]
    /\ sess' = [sess EXCEPT ![t] = NoSession]
    /\ tlog' = [tlog EXCEPT ![t] = << >>]
    /\ local_pool' = [local_pool EXCEPT ![t] = "-"]
    /\ UNCHANGED <<refs, crawled_with_chrome, pool, running, chrome, traffic,
                   ncalls>>

\* ------------------------------------------------------------ worker pool

\* A worker takes the next task of the pool's queue.
StartTask ==
    /\ pool.inqueue # << >>
    /\ Cardinality(running) < pool.live
    /\ running' = running \cup {Head(pool.inqueue)}
    /\ pool' = [pool EXCEPT !.inqueue = Tail(@)]
    /\ UNCHANGED <<refs, crawled_with_chrome, chrome, traffic, pc, call,
                   result, idx, sess, tlog, local_pool, ncalls>>

\* A worker goes on with its session s, now s2.
AsyncGoOn(s, s2) ==
    /\ running' = (running \ {s}) \cup {s2}
    /\ UNCHANGED <<refs, crawled_with_chrome, pool, chrome, pc, call, result,
                   idx, sess, tlog, local_pool, ncalls>>

\* A worker's session reads self._chrome_pool and asks it for a renderer.
AsyncAcquire(s) ==
    /\ s \in running
    /\ s.phase = "start"
    /\ AsyncGoOn(s, Acquire(s))
    /\ UNCHANGED traffic

\* ChromePool.get returns or raises in a worker's session.
AsyncGet(s, g) ==
    /\ s \in running
    /\ s.phase = "getting"
    /\ CanGet(g)
    /\ AsyncGoOn(s, Get(s, g))
    /\ UNCHANGED traffic

\* A worker's session runs up to its first read of self._chrome_pool after
\* the get.
AsyncRun(s, o) ==
    /\ s \in running
    /\ s.phase = "holding"
    /\ AsyncGoOn(s, RunSession(s, o))
    /\ UNCHANGED traffic

\* A worker's session whose renderer was evicted reads self._chrome_pool
\* for its last call on the renderer pool.
AsyncRelease(s) ==
    /\ s \in running
    /\ s.phase = "releasing"
    /\ AsyncGoOn(s, ReleaseSession(s))
    /\ UNCHANGED traffic

\* The remove or free a worker's session read self._chrome_pool for is
\* called.
AsyncPoolCall(s) ==
    /\ s \in running
    /\ s.phase \in {"evicting", "calling"}
    /\ AsyncGoOn(s, CallPool(s))
    /\ UNCHANGED traffic

\* The wrapper of a worker's session puts the record of the error and
\* returns False.
AsyncPut(s) ==
    /\ s \in running
    /\ s.phase = "raised"
    /\ Put(Handle(s))
    /\ AsyncGoOn(s, Handle(s))

\* The task function _crawl_with_strategy_wrapper has returned for session
\* s: the task is complete and the worker is free for the next one.  An
\* error that left the task function ends the worker.
TaskDone(s) ==
    /\ s \in running
    /\ s.phase = "done"
    /\ running' = running \ {s}
    /\ pool' = [pool EXCEPT !.completed = @ + 1,
                            !.live = IF s.raised # "none" THEN @ - 1 ELSE @]
    /\ Lose(s, "workers")
    /\ UNCHANGED <<refs, crawled_with_chrome, traffic, pc, call, result,
                   idx, sess, tlog, local_pool, ncalls>>

\* -------------------------------------------------------------- terminate()

StepOutcomes == {"ok", "RuntimeError"}

\* terminate(), line 460, and _terminate_worker_pool, lines 470-472: the test
\* of self._worker_pool.  The callers make at most n calls.
TerminateCallWithin(n, t) ==
    /\ pc[t] = "idle"
    /\ ncalls < n
    /\ ncalls' = ncalls + 1
    /\ call' = [call EXCEPT ![t] = [NoCall EXCEPT !.op = "terminate"]]
    /\ result' = [result EXCEPT ![t] = "-"]
    /\ pc' = [pc EXCEPT ![t] = IF worker_pool = None THEN "chrome_terminate"
                                ELSE "read_pool"]
    /\ UNCHANGED <<refs, crawled_with_chrome, pool, running, chrome, traffic,
                   idx, sess, tlog, local_pool>>

\* terminate() by callers that make at most MaxCalls calls.
TerminateCall(t) == TerminateCallWithin(MaxCalls, t)

\* _terminate_worker_pool, line 480: pool = self._worker_pool
ReadWorkerPool(t) ==
    /\ pc[t] = "read_pool"
    /\ local_pool' = [local_pool EXCEPT ![t] = worker_pool]
    /\ pc' = [pc EXCEPT ![t] = "clear_pool"]
    /\ UNCHANGED <<refs, crawled_with_chrome, pool, running, chrome, traffic,
                   call, result, idx, sess, tlog, ncalls>>

\* _terminate_worker_pool, line 481: self._worker_pool = None
ClearWorkerPool(t) ==
    /\ pc[t] = "clear_pool"
    /\ worker_pool' = None
    /\ pc' = [pc EXCEPT ![t] = "close"]
    /\ UNCHANGED <<chrome_pool, crawler_state, uri_opener, crawled_with_chrome,
                   pool, running, chrome, traffic, call, result, idx, sess,
                   tlog, local_pool, ncalls>>

\* The outcome of a call on the local `pool`: r when it refers to the Pool;
\* on None the attribute access fails, which the handlers of lines 487, 495
\* and 503 catch like any other error.
PoolCall(lp, r) == IF lp = None THEN "AttributeError" ELSE r

\* The shutdown calls of a thread after one more call on its local `pool`:
\* a call that failed on None never reached the Pool.
Logged(t, op, r) ==
    IF local_pool[t] = None THEN tlog[t] ELSE Append(tlog[t], Call(op, r))

\* _terminate_worker_pool, lines 485-491: pool.close()
PoolClose(t, r) ==
    /\ pc[t] = "close"
    /\ tlog' = [tlog EXCEPT ![t] = Logged(t, "close", r)]
    /\ pool' = [pool EXCEPT !.state = IF PoolCall(local_pool[t], r) = "ok"
                                      THEN "CLOSE" ELSE @]
    /\ pc' = [pc EXCEPT ![t] = "join"]
    /\ UNCHANGED <<refs, crawled_with_chrome, running, chrome, traffic, call,
                   result, idx, sess, local_pool, ncalls>>

\* A shutdown that never falls back to the forced terminate.
AfterJoin_no_fallback(r) == "chrome_terminate"

\* _terminate_worker_pool, lines 493-503: what follows pool.join(), by its
\* outcome r: the forced pool.terminate() when it raised.
AfterJoin(r) == IF r = "ok" THEN "chrome_terminate" ELSE "terminate"

\* _terminate_worker_pool, lines 493-497: pool.join() returns once the
\* accepted tasks have ended, or raises.
PoolJoin(t, r) ==
    /\ pc[t] = "join"
    /\ PoolCall(local_pool[t], r) = "ok" => Pending = 0
    /\ tlog' = [tlog EXCEPT ![t] = Logged(t, "join", r)]
    /\ pc' = [pc EXCEPT ![t] = AfterJoin(PoolCall(local_pool[t], r))]
    /\ UNCHANGED <<refs, crawled_with_chrome, pool, running, chrome, traffic,
                   call, result, idx, sess, local_pool, ncalls>>

\* Pool.terminate(): the pool is terminated by force and the tasks still
\* queued are discarded.
Pool_terminate(p) == [p EXCEPT !.state = "TERMINATE", !.inqueue = << >>]

\* _terminate_worker_pool, lines 501-508: pool.terminate() after a failed
\* join.
PoolTerminate(t, r) ==
    /\ pc[t] = "terminate"
    /\ tlog' = [tlog EXCEPT ![t] = Logged(t, "terminate", r)]
    /\ pool' = IF PoolCall(local_pool[t], r) = "ok"
               THEN Pool_terminate(pool)
               ELSE pool
    /\ pc' = [pc EXCEPT ![t] = "chrome_terminate"]
    /\ UNCHANGED <<refs, crawled_with_chrome, running, chrome, traffic, call,
                   result, idx, sess, local_pool, ncalls>>

\* terminate(), line 462, first part: self._chrome_pool is read for the
\* call of terminate, which fails on None.
ChromeTerminate(t) ==
    /\ pc[t] = "chrome_terminate"
    /\ IF chrome_pool = None
       THEN /\ result' = [result EXCEPT ![t] = "AttributeError"]
            /\ pc' = [pc EXCEPT ![t] = "returned"]
       ELSE /\ pc' = [pc EXCEPT ![t] = "in_chrome_terminate"]
            /\ UNCHANGED result
    /\ UNCHANGED <<refs, crawled_with_chrome, pool, running, chrome, traffic,
                   call, idx, sess, tlog, local_pool, ncalls>>

\* terminate(), line 462, second part: ChromePool.terminate() is called on
\* the pool object the thread read, and returns or raises, r its outcome.
ChromePoolTerminate(t, r) ==
    /\ pc[t] = "in_chrome_terminate"
    /\ tlog' = [tlog EXCEPT ![t] = Append(@, Call("chrome_terminate", r))]
    /\ IF r = "ok"
       THEN /\ chrome' = [chrome EXCEPT !.terminated = TRUE]
            /\ pc' = [pc EXCEPT ![t] = "clear_chrome_pool"]
            /\ UNCHANGED result
       ELSE /\ result' = [result EXCEPT ![t] = r]
            /\ pc' = [pc EXCEPT ![t] = "returned"]
            /\ UNCHANGED chrome
    /\ UNCHANGED <<refs, crawled_with_chrome, pool, running, traffic, call, idx,
                   sess, local_pool, ncalls>>

\* terminate(), line 463: self._chrome_pool = None
ClearChromePool(t) ==
    /\ pc[t] = "clear_chrome_pool"
    /\ chrome_pool' = None
    /\ pc' = [pc EXCEPT ![t] = "clear_crawler_state"]
    /\ UNCHANGED <<worker_pool, crawler_state, uri_opener, crawled_with_chrome,
                   pool, running, chrome, traffic, call, result, idx, sess,
                   tlog, local_pool, ncalls>>

\* terminate(), line 465: self._crawler_state = None
ClearCrawlerState(t) ==
    /\ pc[t] = "clear_crawler_state"
    /\ crawler_state' = None
    /\ pc' = [pc EXCEPT ![t] = "clear_uri_opener"]
    /\ UNCHANGED <<worker_pool, chrome_pool, uri_opener, crawled_with_chrome,
                   pool, running, chrome, traffic, call, result, idx, sess,
                   tlog, local_pool, ncalls>>

\* terminate(), line 467: self._uri_opener = None, and terminate() returns.
ClearUriOpener(t) ==
    /\ pc[t] = "clear_uri_opener"
    /\ uri_opener' = None
    /\ result' = [result EXCEPT ![t] = "None"]
    /\ pc' = [pc EXCEPT ![t] = "returned"]
    /\ UNCHANGED <<worker_pool, chrome_pool, crawler_state, crawled_with_chrome,
                   pool, running, chrome, traffic, call, idx, sess, tlog,
                   local_pool, ncalls>>

\* ------------------------------------------------------------ introspection

\* get_pending_tasks(), lines 156-157: get_running_task_count() of the pool
\* self._worker_pool refers to; the call on None raises.
get_pending_tasks ==
    IF worker_pool = None
    THEN [raised |-> "AttributeError", value |-> 0]
    ELSE [raised |-> "none", value |-> Pending]

\* has_pending_work(), lines 153-154: bool(self.get_pending_tasks())
has_pending_work ==
    [raised |-> get_pending_tasks.raised,
     value |-> get_pending_tasks.raised = "none" /\ get_pending_tasks.value # 0]

\* ------------------------------------------------------------ specification

\* crawl() up to the dispatch, for the threads T and arguments of the given
\* sets.  The request and the response of one call carry the same URI.
GateSteps(T, M, C, U, Q, D, A) ==
    \/ \E t \in T, m \in M, ct \in C, u \in U, q \in Q, d \in D, a \in A :
            CrawlCall(t, m, ct, u, u, q, d, a)
    \/ \E t \in T : ShouldCrawlTest(t)
    \/ \E t \in T, rnd \in RandIds : ShouldCrawlAdd(t, rnd)
    \/ \E t \in T : Return(t)

\* _crawl: the sessions run on the caller's thread.
SyncSteps(T, G, S) ==
    \/ \E t \in T : SyncAcquire(t)
    \/ \E t \in T, g \in G : SyncGet(t, g)
    \/ \E t \in T, o \in S : SyncRun(t, o)
    \/ \E t \in T : SyncRelease(t)
    \/ \E t \in T : SyncPoolCall(t)
    \/ \E t \in T : SyncPut(t)

\* _crawl_async and the worker pool: the sessions run on the workers.
AsyncSteps(T, G, S) ==
    \/ \E t \in T : ApplyAsync(t)
    \/ \E t \in T : PoolApplyAsync(t)
    \/ StartTask
    \/ \E s \in running : AsyncAcquire(s)
    \/ \E s \in running, g \in G : AsyncGet(s, g)
    \/ \E s \in running, o \in S : AsyncRun(s, o)
    \/ \E s \in running : AsyncRelease(s)
    \/ \E s \in running : AsyncPoolCall(s)
    \/ \E s \in running : AsyncPut(s)
    \/ \E s \in running : TaskDone(s)

\* terminate(), by callers that make at most n calls
TerminateStepsWithin(n, T) ==
    \/ \E t \in T : TerminateCallWithin(n, t)
    \/ \E t \in T : ReadWorkerPool(t)
    \/ \E t \in T : ClearWorkerPool(t)
    \/ \E t \in T, r \in StepOutcomes : PoolClose(t, r)
    \/ \E t \in T, r \in StepOutcomes : PoolJoin(t, r)
    \/ \E t \in T, r \in StepOutcomes : PoolTerminate(t, r)
    \/ \E t \in T : ChromeTerminate(t)
    \/ \E t \in T, r \in StepOutcomes : ChromePoolTerminate(t, r)
    \/ \E t \in T : ClearChromePool(t)
    \/ \E t \in T : ClearCrawlerState(t)
    \/ \E t \in T : ClearUriOpener(t)

\* terminate()
TerminateSteps(T) == TerminateStepsWithin(MaxCalls, T)

\* One thread uses the crawler, with synchronous crawls.
Next ==
    \/ GateSteps({1}, Methods, ContentTypes, Uris, Queues, DebuggingIds, {FALSE})
    \/ SyncSteps({1}, GetOutcomes, Scripts)
    \/ TerminateSteps({1})

Spec == Init /\ [][Next]_vars

\* Scripts of a session that succeeds, is skipped and fails.
ScriptOk ==
    [load_url |-> "ok", wait_for_load |-> "True", stop |-> "ok", crawl |-> "ok",
     load_about_blank |-> "ok"]
ScriptHardCrawl ==
    [ScriptOk EXCEPT !.crawl = "RuntimeError", !.load_about_blank = "-"]
ScriptsSome ==
    {ScriptOk,
     [NoScript EXCEPT !.load_url = "ChromeInterfaceTimeout"],
     ScriptHardCrawl}

\* ... and of sessions that fail, softly or not, in each phase.
ScriptsMore ==
    ScriptsSome \cup
        {[NoScript EXCEPT !.load_url = "RuntimeError"],
         [ScriptOk EXCEPT !.crawl = "ChromeCrawlerException",
                          !.load_about_blank = "-"],
         [ScriptOk EXCEPT !.load_about_blank = "ChromeInterfaceException"],
         [ScriptOk EXCEPT !.load_about_blank = "RuntimeError"]}

\* One thread uses the crawler, with asynchronous crawls of one page whose
\* sessions end in every way.
AsyncNext ==
    \/ GateSteps({1}, {"GET"}, {CT_text_html}, {"u1"}, {"q2"}, {"did1"}, {TRUE})
    \/ AsyncSteps({1}, GetOutcomes, ScriptsMore)
    \/ TerminateSteps({1})

AsyncSpec == Init /\ [][AsyncNext]_vars

\* One thread uses the crawler, with asynchronous crawls of one page and
\* synchronous crawls of another.
MixedNext ==
    \/ CrawlCall(1, "GET", CT_text_html, "u1", "u1", "q1", None, TRUE)
    \/ CrawlCall(1, "GET", CT_text_html, "u2", "u2", "q1", None, FALSE)
    \/ ShouldCrawlTest(1)
    \/ \E rnd \in RandIds : ShouldCrawlAdd(1, rnd)
    \/ Return(1)
    \/ SyncSteps({1}, {"ok"}, ScriptsSome)
    \/ AsyncSteps({1}, {"ok"}, ScriptsSome)
    \/ TerminateSteps({1})

MixedSpec == Init /\ [][MixedNext]_vars

\* Several threads use the crawler at once for one page, with asynchronous
\* crawls; they make RaceCalls calls between them.
RaceNext ==
    \/ \E t \in Callers :
           CrawlCallWithin(RaceCalls, t, "GET", CT_text_html, "u1", "u1", "q1",
                           None, TRUE)
    \/ \E t \in Callers : ShouldCrawlTest(t)
    \/ \E t \in Callers, rnd \in RandIds : ShouldCrawlAdd(t, rnd)
    \/ \E t \in Callers : Return(t)
    \/ AsyncSteps(Callers, {"ok"}, ScriptsSome)
    \/ TerminateStepsWithin(RaceCalls, Callers)

RaceSpec == Init /\ [][RaceNext]_vars

\* One thread uses the crawler, with asynchronous crawls of one page.
LiveNext ==
    \/ GateSteps({1}, {"GET"}, {CT_text_html}, {"u1"}, {"q1"}, {None}, {TRUE})
    \/ AsyncSteps({1}, GetOutcomes, ScriptsSome)
    \/ TerminateSteps({1})

\* The workers of the pool are threads the scheduler runs: a worker that can
\* take a step eventually takes one.
WorkerFairness ==
    /\ WF_vars(StartTask)
    /\ WF_vars(\E s \in running : AsyncAcquire(s))
    /\ WF_vars(\E s \in running, g \in GetOutcomes : AsyncGet(s, g))
    /\ WF_vars(\E s \in running, o \in ScriptsSome : AsyncRun(s, o))
    /\ WF_vars(\E s \in running : AsyncRelease(s))
    /\ WF_vars(\E s \in running : AsyncPoolCall(s))
    /\ WF_vars(\E s \in running : AsyncPut(s))
    /\ WF_vars(\E s \in running : TaskDone(s))

LiveSpec == Init /\ [][LiveNext]_vars /\ WorkerFairness

\* The max_instances arguments of the constructor: the default None and
\* numbers below, at and above the minimum size of the renderer pool.
MaxInstancesArgs == {NoneInstances} \cup (0 .. MaxInstancesArg)

\* A crawler constructed with any of these arguments is used by one thread,
\* with asynchronous crawls of one page, and terminated.
SizingInit == (\E max_instances \in MaxInstancesArgs : Construct(max_instances)) /\ Idle

SizingNext ==
    \/ GateSteps({1}, {"GET"}, {CT_text_html}, {"u1"}, {"q1"}, {None}, {TRUE})
    \/ AsyncSteps({1}, {"ok"}, ScriptsSome)
    \/ TerminateSteps({1})

SizingSpec == SizingInit /\ [][SizingNext]_vars

\* The pages whose sessions take every renderer of a pool of the minimum size.
PagesToFill == (MIN_CHROME_POOL_INSTANCES + NStrategies - 1) \div NStrategies

\* The pages of a site: "p1", "p2", ...
Digits == <<"1", "2", "3", "4", "5", "6", "7", "8", "9">>
Page(i) == "p" \o Digits[i]
Pages == {Page(i) : i \in 1 .. PagesToFill}

\* The pages a caller that walks the site in order crawls next: the first
\* page not crawled yet, or the last one again.
NextPages ==
    LET fresh == {i \in 1 .. PagesToFill : Page(i) \notin crawled_with_chrome}
    IN  IF fresh = {} THEN {Page(PagesToFill)}
        ELSE {Page(CHOOSE i \in fresh : \A j \in fresh : i <= j)}

\* A crawler of the default size is used by one thread that crawls the pages
\* of a site asynchronously, page after page, so that the pool has more tasks
\* than workers; the sessions are long ones, that keep their renderer while
\* the site is crawled.
BusyNext ==
    \/ \E u \in NextPages :
           CrawlCallWithin(PagesToFill + 1, 1, "GET", CT_text_html, u, u, "q1", None, TRUE)
    \/ ShouldCrawlTest(1)
    \/ \E rnd \in RandIds : ShouldCrawlAdd(1, rnd)
    \/ Return(1)
    \/ ApplyAsync(1)
    \/ PoolApplyAsync(1)
    \/ StartTask
    \/ \E s \in running : AsyncAcquire(s)
    \/ \E s \in running : AsyncGet(s, "ok")

BusySpec == Init /\ [][BusyNext]_vars

\* ================================================================== claims

\* The calls of a session's log that were made with one of the given names.
CallsOf(calls, ops) == {i \in 1 .. Len(calls) : calls[i].op \in ops}

\* The state terminate() leaves when it completes.
TerminateCompleted ==
    /\ worker_pool = None
    /\ chrome_pool = None
    /\ crawler_state = None
    /\ uri_opener = None

\* ---------------------------------------------------------------------- C1

\* C1: every renderer a session obtained from the pool is released exactly
\* once, by one call to free or one call to remove: in an ended session the
\* free and remove calls together are as many as the get calls.
C1_ReleasedExactlyOnce ==
    \A t \in Callers :
        sess[t].phase = "done" =>
            Cardinality(CallsOf(sess[t].calls, {"free", "remove"}))
                = Cardinality(CallsOf(sess[t].calls, {"get"}))

\* ---------------------------------------------------------------------- C2

\* C2: of the crawl() calls that threads make concurrently for one URI, one
\* passes the eligibility gate and the others return False: no two calls in
\* progress for the same URI are both past the gate.
PastGate(t) ==
    /\ call[t].op = "crawl"
    /\ \/ pc[t] \in {"acquire", "get", "run", "in_remove", "release",
                    "in_release", "put", "apply_async", "in_apply_async"}
       \/ pc[t] = "returned" /\ result[t] # "False"

C2_AtMostOnceCrawl ==
    \A t1, t2 \in Callers :
        (t1 # t2 /\ call[t1].uri = call[t2].uri /\ PastGate(t1))
            => ~PastGate(t2)

\* ---------------------------------------------------------------------- C3

\* C3: a terminate() call made after terminate() has completed returns
\* normally, makes no call on the worker pool or the renderer pool and leaves
\* the crawler as it was.
C3_IdempotentTerminate ==
    [][\A t \in Callers :
          (/\ TerminateCompleted
           /\ call[t].op = "terminate"
           /\ pc[t] # "returned"
           /\ pc'[t] = "returned")
          => (/\ result'[t] = "None"
              /\ tlog'[t] = << >>
              /\ UNCHANGED <<refs, pool, chrome>>)]_vars

\* ---------------------------------------------------------------------- C4

\* The shutdown steps of a log, in the order they were attempted.
StepsOf(log) == [i \in 1 .. Len(log) |-> log[i].op]
Failed(log, op) == \E i \in 1 .. Len(log) : log[i].op = op /\ log[i].arg # "ok"

\* C4: whatever shutdown steps fail, a terminate() call that shuts the pools
\* down returns normally, has attempted every step (close, join, the forced
\* terminate exactly when join failed, the renderer pool's shutdown) and has
\* dropped the four references.
C4_TerminateNeverRaises ==
    \A t \in Callers :
        (pc[t] = "returned" /\ call[t].op = "terminate" /\ tlog[t] # << >>)
            => (/\ result[t] = "None"
                /\ StepsOf(tlog[t]) =
                     IF Failed(tlog[t], "join")
                     THEN <<"close", "join", "terminate", "chrome_terminate">>
                     ELSE <<"close", "join", "chrome_terminate">>
                /\ TerminateCompleted)

\* ---------------------------------------------------------------------- C5

\* C5: when a session of a synchronous crawl() ends in a hard failure (an
\* error leaves _crawl_with_strategy), crawl() has raised that error to its
\* caller.
C5_SyncHardFailureRaised ==
    \A t \in Callers :
        (/\ call[t].op = "crawl"
         /\ ~call[t].async
         /\ sess[t].phase = "done"
         /\ sess[t].exc # "none")
            => (pc[t] = "returned" /\ result[t] = sess[t].exc)

\* ---------------------------------------------------------------------- C6

\* The outcome of a call that raised: a hard failure unless the class is one
\* of those the phase anticipates.
HardIn(outcome, anticipated) ==
    IF Raises(outcome) /\ outcome \notin anticipated THEN outcome ELSE "none"

\* The hard failure a session under script o ends in ("none" when it succeeds
\* or is skipped), read from the first call of the script that raises.
HardFailure(o) ==
    IF Raises(o.load_url) THEN HardIn(o.load_url, SoftRenderer)
    ELSE IF Raises(o.wait_for_load) THEN HardIn(o.wait_for_load, SoftRenderer)
    ELSE IF Raises(o.stop) THEN HardIn(o.stop, SoftRenderer)
    ELSE IF Raises(o.crawl) THEN HardIn(o.crawl, SoftStrategy)
    ELSE HardIn(o.load_about_blank, SoftRenderer)

\* The step puts on the queue of session s one record of the error e for the
\* request and the debugging id of s, or nothing when e is "none"; the other
\* queues are left alone.
Recorded(s, e) ==
    traffic' = [traffic EXCEPT ![s.q] =
                   IF e = "none" THEN @
                   ELSE Append(@, [request |-> s.request, e |-> e,
                                   did |-> s.did])]

\* C6: a session run by a worker that ends in a hard failure (an error of its
\* script that the phase does not anticipate, the pool's failure to give a
\* renderer, or the AttributeError of a read of self._chrome_pool after
\* terminate() cleared it) puts exactly one record (request, error, debugging
\* id of the crawl() call) on the queue that was passed to that crawl() call,
\* a session that succeeds or is skipped on a soft failure puts nothing, and
\* no error reaches the worker.  A call of remove or free for which the
\* session read the reference before terminate() cleared it goes through.
C6_AsyncHardFailureRecorded ==
    [][/\ \A t \in Callers :
            (pc[t] = "in_apply_async" /\ pc'[t] # pc[t]) =>
                LET task == pool'.inqueue[Len(pool'.inqueue)]
                IN  /\ pool'.accepted = pool.accepted + 1
                    /\ task.request = [method |-> call[t].method,
                                       uri |-> call[t].req_uri]
                    /\ task.q = call[t].q
                    /\ task.did = call[t].did
                    /\ UNCHANGED traffic
       /\ \A s \in running, s2 \in running' :
            (s2.id = s.id /\ s2 # s) =>
                /\ s2.request = s.request /\ s2.q = s.q /\ s2.did = s.did
                /\ IF s.phase = "raised"
                   THEN /\ s.exc # "none"
                        /\ s2.phase = "done"
                        /\ s2.exc = s.exc
                        /\ s2.ret = "False"
                        /\ Recorded(s, s.exc)
                   ELSE UNCHANGED traffic
                /\ s.phase \in {"start", "holding", "releasing"} =>
                        IF chrome_pool = None
                        THEN s2.phase = "raised" /\ s2.exc = "AttributeError"
                        ELSE /\ s2.phase =
                                  CASE s.phase = "start" -> "getting"
                                    [] s.phase = "releasing" -> "calling"
                                    [] OTHER -> IF s2.phase = "evicting"
                                                THEN "evicting" ELSE "calling"
                             /\ s.phase = "holding" =>
                                    s2.exc = HardFailure(s2.script)
                             /\ s.phase = "releasing" =>
                                    s2.exc = HardFailure(s.script)
                /\ s.phase = "getting" =>
                        \/ s2.phase = "holding"
                        \/ s2.phase = "raised" /\ s2.exc = "ChromeCrawlerException"
                /\ s.phase = "evicting" =>
                        /\ s2.phase = "releasing"
                        /\ s2.exc = HardFailure(s.script)
                /\ s.phase = "calling" =>
                        /\ s2.exc = HardFailure(s.script)
                        /\ s2.phase = IF s2.exc = "none" THEN "done" ELSE "raised"
                /\ s.phase # "done"
       /\ \A s \in running :
            (\A s2 \in running' : s2.id # s.id) =>
                /\ s.phase = "done"
                /\ s.raised = "none"
                /\ s.put = IF s.exc = "none" THEN << >>
                           ELSE << [request |-> s.request, e |-> s.exc,
                                    did |-> s.did] >>
                /\ UNCHANGED traffic
       /\ (\A s \in running : s.phase # "raised") => UNCHANGED traffic
       /\ pool'.live = pool.live]_vars

\* A worker has recorded the hard failure of a strategy on the queue given to
\* crawl(), and another session has ended without a record.
C6_Witness ==
    /\ pool.completed = NStrategies
    /\ pool.live = pool.processes
    /\ \E q \in Queues :
        /\ Len(traffic[q]) = 1
        /\ traffic[q][1].e = "RuntimeError"
        /\ traffic[q][1].did = "did1"
        /\ \A q2 \in Queues \ {q} : traffic[q2] = << >>

\* ---------------------------------------------------------------------- C7

\* C7 as claimed: under fair scheduling of the workers every task the pool
\* accepted eventually ends, and no worker is ever lost.
C7_EveryAcceptedTaskEnds ==
    /\ (Pending > 0) ~> (Pending = 0)
    /\ [](pool.live = pool.processes)

\* C7: under fair scheduling of the workers every task the pool accepted
\* eventually ends, whatever hard failures other sessions ended in, unless
\* terminate() has forcibly terminated the pool after a failed join; no
\* worker is ever lost to a hard failure.
C7_HardFailureIsolation ==
    /\ (Pending > 0) ~> (Pending = 0 \/ pool.state = "TERMINATE")
    /\ [](pool.live = pool.processes)

\* The sessions of a crawl have all ended in a hard failure, one after or
\* beside the other, and the pool still has all its workers.
C7_Witness ==
    /\ pool.accepted = NStrategies
    /\ Pending = 0
    /\ pool.state = "RUN"
    /\ pool.live = pool.processes
    /\ Len(traffic["q1"]) = NStrategies
    /\ \A i \in 1 .. NStrategies : traffic["q1"][i].e = "RuntimeError"

\* ---------------------------------------------------------------------- C8

\* The step is the verdict of the eligibility gate for the call of thread t.
GateVerdict(t) == pc[t] = "gate" /\ pc'[t] # "gate"

\* The call of thread t returns False at this step and has started nothing.
Rejected(t) ==
    /\ pc'[t] = "returned"
    /\ result'[t] = "False"
    /\ sess'[t] = NoSession
    /\ UNCHANGED <<crawled_with_chrome, pool, running, chrome, traffic>>

\* C8: a URI is in the seen-set from the moment a crawl() call for it passes
\* the gate, before anything is dispatched and whatever becomes of the
\* sessions; it never leaves the set, and every later crawl() call for it
\* returns False without asking the pool for a renderer.
C8_SequentialRepeatRejected ==
    /\ [](\A t \in Callers : PastGate(t) => call[t].uri \in crawled_with_chrome)
    /\ [][/\ crawled_with_chrome \subseteq crawled_with_chrome'
          /\ \A t \in Callers :
                (GateVerdict(t) /\ call[t].uri \in crawled_with_chrome)
                    => Rejected(t)]_vars

\* A GET/HTML crawl() call has returned False for a URI whose first crawl
\* ended in a hard failure recorded on the queue.
C8_Witness ==
    \E t \in Callers :
        /\ pc[t] = "returned"
        /\ call[t].op = "crawl"
        /\ result[t] = "False"
        /\ worker_pool # None
        /\ call[t].method = "GET"
        /\ call[t].content_type = CT_text_html
        /\ call[t].uri \in crawled_with_chrome
        /\ \E q \in Queues :
            /\ traffic[q] # << >>
            /\ traffic[q][1].request.uri = call[t].uri
            /\ traffic[q][1].e = "ChromeCrawlerException"

\* ---------------------------------------------------------------------- C9

\* The content types of the inputs that contain "html" in some case.
HtmlTypes == {CT_text_html, CT_xhtml}

\* C9: the gate rejects a call whose method is not GET or whose content type
\* does not contain "html" in any case: the call returns False, starts no
\* session and leaves the seen-set as it was; a GET/HTML call for a URI that
\* is not in the seen-set passes the gate.
C9_GateRejectionLeavesState ==
    [][\A t \in Callers :
          /\ (/\ GateVerdict(t)
              /\ \/ call[t].method # "GET"
                 \/ call[t].content_type \notin HtmlTypes)
                => Rejected(t)
          /\ (/\ GateVerdict(t)
              /\ call[t].method = "GET"
              /\ call[t].content_type \in HtmlTypes
              /\ call[t].uri \notin crawled_with_chrome)
                => pc'[t] = "add"]_vars

\* A POST for an HTML page has been rejected, its URI is not in the seen-set
\* and the URI of an earlier crawl is.
C9_Witness ==
    \E t \in Callers :
        /\ pc[t] = "returned"
        /\ call[t].op = "crawl"
        /\ result[t] = "False"
        /\ worker_pool # None
        /\ call[t].method = "POST"
        /\ call[t].content_type = CT_xhtml
        /\ call[t].uri \notin crawled_with_chrome
        /\ crawled_with_chrome # {}

\* --------------------------------------------------------------------- C10

\* C10: once terminate() has completed, a crawl() call returns False at once
\* and changes nothing: the seen-set, the pools, the sessions and the traffic
\* queues stay as they were.
C10_CrawlAfterTerminateRejected ==
    [][\A t \in Callers :
          (TerminateCompleted /\ pc[t] = "idle" /\ call'[t].op = "crawl")
            => (/\ Rejected(t)
                /\ UNCHANGED <<refs, sess>>)]_vars

\* After terminate() an asynchronous GET/HTML crawl() of a URI never seen has
\* returned False.
C10_Witness ==
    \E t \in Callers :
        /\ TerminateCompleted
        /\ pc[t] = "returned"
        /\ call[t].op = "crawl"
        /\ result[t] = "False"
        /\ call[t].async
        /\ Renderable(call[t].method, call[t].content_type)
        /\ call[t].uri \notin crawled_with_chrome
        /\ crawled_with_chrome # {}

\* --------------------------------------------------------------------- C11

\* The session of thread t has ended.
Ended(t) == sess[t].phase = "done"

\* The names of the calls a session made, in order.
OpsOf(t) == StepsOf(sess[t].calls)

\* Nothing of the session of thread t is surfaced: the wrapper reports
\* success and puts no record on the queue.
NothingSurfaced(t) ==
    /\ sess[t].exc = "none"
    /\ sess[t].ret = "True"
    /\ sess[t].put = << >>
    /\ sess[t].raised = "none"

\* The sub-steps of the initial load: position in the session's call log and
\* the eviction reason the code gives for a soft failure of that sub-step.
LoadSubSteps ==
    { [op |-> "load_url", at |-> 3, reason |-> "failed to load URL"],
      [op |-> "wait_for_load", at |-> 4, reason |-> "exception raised"],
      [op |-> "stop", at |-> 5, reason |-> "failed to stop"] }

\* The sub-step of the initial load at which script o raises a soft error.
SoftLoadFailure(o, step) ==
    /\ o[step.op] \in SoftRenderer
    /\ \A other \in LoadSubSteps : other.at < step.at => ~Raises(o[other.op])

\* C11: when load_url, wait_for_load or stop raises a soft renderer error the
\* renderer is evicted, right after the failed call and with the reason of
\* that sub-step, neither the strategy's crawl nor the cleanup is invoked,
\* and nothing is surfaced past the session.
C11_SoftLoadSkipsSession ==
    \A t \in Callers, step \in LoadSubSteps :
        (Ended(t) /\ SoftLoadFailure(sess[t].script, step)) =>
            /\ Len(sess[t].calls) > step.at
            /\ sess[t].calls[step.at].op = step.op
            /\ sess[t].calls[step.at + 1] = Call("remove", step.reason)
            /\ CallsOf(sess[t].calls, {"crawl", "load_about_blank"}) = {}
            /\ NothingSurfaced(t)

\* A session has been skipped because wait_for_load timed out, after an
\* earlier session of the same crawl.
C11_Witness ==
    \E t \in Callers :
        /\ Ended(t)
        /\ sess[t].strategy = "ChromeCrawlerDOMDump"
        /\ sess[t].script.wait_for_load = "ChromeInterfaceTimeout"
        /\ Call("remove", "exception raised") \in
              {sess[t].calls[i] : i \in 1 .. Len(sess[t].calls)}

\* --------------------------------------------------------------------- C12

\* The registered extraction strategies, in order.
StrategyAt(i) == IF i = 1 THEN "ChromeCrawlerJS" ELSE "ChromeCrawlerDOMDump"

\* Every call of the script returns without raising.
AllSucceed(o) ==
    /\ o.load_url = "ok"
    /\ o.wait_for_load \in {"True", "False"}
    /\ o.stop = "ok"
    /\ o.crawl = "ok"
    /\ o.load_about_blank = "ok"

\* The positions of a thread in a session that holds a renderer, in their
\* order (0: the thread is elsewhere).
SessionRank(p) ==
    CASE p = "run" -> 1
      [] p = "in_remove" -> 2
      [] p = "release" -> 3
      [] p = "in_release" -> 4
      [] p = "put" -> 5
      [] OTHER -> 0

\* The session of thread t ends at this step.
SessionEnds(t) == sess'[t] # sess[t] /\ sess'[t].phase = "done"

\* C12: a crawl() call that passes the gate runs one session per strategy,
\* the JS strategy then the DOM dump, asks the pool for exactly one renderer
\* in each and returns True; a session whose load, strategy and cleanup all
\* complete hands its renderer to free and never to remove.
C12_SuccessfulCrawl ==
    /\ [](\A t \in Callers :
            (Ended(t) /\ AllSucceed(sess[t].script)) =>
                /\ OpsOf(t) = <<"get", "set_debugging_id", "load_url",
                                "wait_for_load", "stop", "crawl",
                                "load_about_blank", "free">>
                /\ NothingSurfaced(t))
    /\ [][\A t \in Callers :
            /\ (pc[t] = "add" /\ pc'[t] # "add")
                 => (pc'[t] = "acquire" /\ idx'[t] = 1)
            /\ (pc[t] = "acquire" /\ sess'[t] # sess[t])
                 => /\ sess'[t].strategy = StrategyAt(idx[t])
                    /\ sess'[t].calls = << >>
                    /\ pc'[t] = "get"
            /\ (pc[t] = "get" /\ sess'[t] # sess[t])
                 => /\ pc'[t] \in {"run", "put"}
                    /\ Cardinality(CallsOf(sess'[t].calls,
                                           {"get", "get_raised"})) = 1
            /\ (SessionRank(pc[t]) > 0 /\ sess'[t] # sess[t])
                 => /\ \/ SessionEnds(t)
                       \/ SessionRank(pc'[t]) > SessionRank(pc[t])
                    /\ Cardinality(CallsOf(sess'[t].calls,
                                           {"get", "get_raised"})) = 1
            /\ SessionEnds(t)
                 => IF idx[t] = 1
                    THEN pc'[t] = "acquire" /\ idx'[t] = 2
                    ELSE /\ idx[t] = 2
                         /\ pc'[t] = "returned"
                         /\ result'[t] = "True"]_vars

\* crawl() has returned True for a GET/HTML pair after the DOM dump session,
\* in which everything succeeded, freed its renderer.
C12_Witness ==
    \E t \in Callers :
        /\ pc[t] = "returned"
        /\ result[t] = "True"
        /\ call[t].method = "GET"
        /\ call[t].content_type = CT_text_html
        /\ call[t].uri \in crawled_with_chrome
        /\ Ended(t)
        /\ sess[t].strategy = "ChromeCrawlerDOMDump"
        /\ sess[t].script = ScriptOk
        /\ sess[t].calls[Len(sess[t].calls)] = Call("free", "")

\* --------------------------------------------------------------------- C13

\* C13: a session in which an error outside the soft categories is raised by
\* a sub-step of the initial load, by the strategy's crawl or by the cleanup
\* hands its renderer to remove, never to free, and the error leaves
\* _crawl_with_strategy.
C13_HardFailureEvicts ==
    \A t \in Callers :
        (Ended(t) /\ HardFailure(sess[t].script) # "none") =>
            /\ CallsOf(sess[t].calls, {"remove"}) # {}
            /\ CallsOf(sess[t].calls, {"free"}) = {}
            /\ sess[t].exc = HardFailure(sess[t].script)

\* A session has ended in an unanticipated error of the cleanup and its
\* renderer has been evicted.
C13_Witness ==
    \E t \in Callers :
        /\ Ended(t)
        /\ sess[t].script.load_about_blank = "RuntimeError"
        /\ sess[t].exc = "RuntimeError"
        /\ sess[t].calls[Len(sess[t].calls)] = Call("remove", "generic exception")

\* --------------------------------------------------------------------- C14

\* C14: when the strategy's crawl raises a soft error (renderer interface
\* error, renderer timeout or the crawler's own exception) the cleanup is not
\* run, the renderer is handed to free and not to remove, and nothing is
\* surfaced past the session.
C14_SoftStrategyKeepsRenderer ==
    \A t \in Callers :
        (Ended(t) /\ sess[t].script.crawl \in
            {"ChromeInterfaceException", "ChromeInterfaceTimeout",
             "ChromeCrawlerException"}) =>
            /\ OpsOf(t) = <<"get", "set_debugging_id", "load_url",
                            "wait_for_load", "stop", "crawl", "free">>
            /\ NothingSurfaced(t)

\* The strategy has raised its own crawler exception and the renderer has
\* been freed.
C14_Witness ==
    \E t \in Callers :
        /\ Ended(t)
        /\ sess[t].script.crawl = "ChromeCrawlerException"
        /\ sess[t].calls[Len(sess[t].calls)] = Call("free", "")
        /\ traffic = [q \in Queues |-> << >>]

\* --------------------------------------------------------------------- C15

\* C15: when load_about_blank raises a soft renderer error the renderer is
\* evicted with the reason of the cleanup, nothing is surfaced past the
\* session, and the step that ends the session leaves what is on the traffic
\* queues in place.
C15_SoftCleanupEvicts ==
    /\ [](\A t \in Callers :
            (Ended(t) /\ sess[t].script.load_about_blank \in
                {"ChromeInterfaceException", "ChromeInterfaceTimeout"}) =>
                /\ SubSeq(OpsOf(t), 1, 8) =
                     <<"get", "set_debugging_id", "load_url", "wait_for_load",
                       "stop", "crawl", "load_about_blank", "remove">>
                /\ sess[t].calls[8] =
                     Call("remove", "failed to load about:blank")
                /\ NothingSurfaced(t))
    /\ [][\A t \in Callers :
            (SessionEnds(t) /\ sess'[t].script.load_about_blank \in
                {"ChromeInterfaceException", "ChromeInterfaceTimeout"})
            => UNCHANGED traffic]_vars

\* A session has ended in a soft failure of the cleanup while the queue
\* holds what the earlier session of the crawl put on it.
C15_Witness ==
    \E t \in Callers :
        /\ Ended(t)
        /\ sess[t].strategy = "ChromeCrawlerDOMDump"
        /\ sess[t].script.load_about_blank = "ChromeInterfaceException"
        /\ Len(traffic[sess[t].q]) = 1

\* --------------------------------------------------------------------- C16

\* C16: when the pool's get raises its pool exception the session ends at
\* once with the wrapped crawler exception: no call is made on a renderer or
\* a strategy, neither free nor remove is called, and the failure is not
\* skipped: the wrapper reports it and records it on the traffic queue.
C16_AcquireFailureIsHard ==
    [][\A t \in Callers :
          /\ (pc[t] = "get" /\ SyncGet(t, "ChromePoolException")) =>
                /\ pc'[t] = "put"
                /\ sess'[t].exc = "ChromeCrawlerException"
                /\ sess'[t].calls = <<Call("get_raised", call[t].did)>>
          /\ (pc[t] = "put" /\ pc'[t] # "put"
                /\ sess[t].calls = <<Call("get_raised", call[t].did)>>) =>
                /\ sess'[t].phase = "done"
                /\ sess'[t].exc = "ChromeCrawlerException"
                /\ sess'[t].calls = sess[t].calls
                /\ sess'[t].ret = "False"
                /\ traffic' = [traffic EXCEPT ![call[t].q] =
                      Append(@, [request |-> [method |-> call[t].method,
                                              uri |-> call[t].req_uri],
                                 e |-> "ChromeCrawlerException",
                                 did |-> call[t].did])]]_vars

\* The pool had no renderer for the first session of a crawl: the failure is
\* on the queue and the session touched no renderer.
C16_Witness ==
    \E t \in Callers :
        /\ Ended(t)
        /\ sess[t].strategy = "ChromeCrawlerJS"
        /\ OpsOf(t) = <<"get_raised">>
        /\ sess[t].exc = "ChromeCrawlerException"
        /\ Len(traffic[sess[t].q]) = 1
        /\ traffic[sess[t].q][1].e = "ChromeCrawlerException"

\* --------------------------------------------------------------------- C17

\* The phases of a session, in their order; free and remove are the release.
PhaseRank(op) ==
    CASE op = "get" -> 1
      [] op = "set_debugging_id" -> 2
      [] op = "load_url" -> 3
      [] op = "wait_for_load" -> 4
      [] op = "stop" -> 5
      [] op = "crawl" -> 6
      [] op = "load_about_blank" -> 7
      [] op \in {"free", "remove"} -> 8
      [] OTHER -> 0

\* C17: the calls of a session are made strictly in the order acquire, set
\* debugging id, navigate, wait for load, stop, run strategy, cleanup,
\* release; the strategy is run only after navigate, wait and stop returned,
\* the cleanup only after the strategy returned, and no call follows the
\* release or eviction of the renderer.
C17_PhaseOrdering ==
    \A t \in Callers :
        sess[t].phase \in {"holding", "evicting", "releasing", "calling",
                            "raised", "done"} =>
            LET ops == OpsOf(t)
                o == sess[t].script
            IN  /\ \A i \in 1 .. Len(ops) - 1 :
                        PhaseRank(ops[i]) < PhaseRank(ops[i + 1])
                /\ CallsOf(sess[t].calls, {"crawl"}) # {} =>
                        /\ o.load_url = "ok"
                        /\ o.wait_for_load \in {"True", "False"}
                        /\ o.stop = "ok"
                /\ CallsOf(sess[t].calls, {"load_about_blank"}) # {} =>
                        o.crawl = "ok"
                /\ \A i \in CallsOf(sess[t].calls, {"free", "remove"}) :
                        i = Len(ops)

\* --------------------------------------------------------------------- C18

\* C18: when wait_for_load returns False the session goes on: stop is
\* invoked next, then the strategy's crawl and the cleanup as long as the
\* call before returned; the renderer is evicted only if one of these later
\* calls raises, and freed when they all succeed.
C18_BestEffortLoad ==
    \A t \in Callers :
        (Ended(t) /\ sess[t].script.wait_for_load = "False") =>
            LET o == sess[t].script
                ops == OpsOf(t)
            IN  /\ SubSeq(ops, 1, 5) = <<"get", "set_debugging_id", "load_url",
                                         "wait_for_load", "stop">>
                /\ o.stop = "ok" => ops[6] = "crawl"
                /\ o.crawl = "ok" => ops[7] = "load_about_blank"
                /\ CallsOf(sess[t].calls, {"remove"}) # {} =>
                        \/ Raises(o.stop)
                        \/ Raises(o.crawl)
                        \/ Raises(o.load_about_blank)
                /\ AllSucceed(o) =>
                        /\ ops = <<"get", "set_debugging_id", "load_url",
                                   "wait_for_load", "stop", "crawl",
                                   "load_about_blank", "free">>
                        /\ NothingSurfaced(t)

\* The page of a session did not finish loading, every later call succeeded
\* and the renderer has been freed.
C18_Witness ==
    \E t \in Callers :
        /\ Ended(t)
        /\ sess[t].script = [ScriptOk EXCEPT !.wait_for_load = "False"]
        /\ sess[t].calls[Len(sess[t].calls)] = Call("free", "")
        /\ sess[t].ret = "True"

\* --------------------------------------------------------------------- C19

\* C19: in terminate() the worker pool reference is cleared before close is
\* called, close is called before join, the forced terminate is called
\* exactly when join raised, and the renderer pool is shut down only after
\* the join, or the forced terminate, has finished.  (A call that finds the
\* worker pool reference cleared goes straight to the renderer pool.)
C19_ShutdownSequencing ==
    \A t \in Callers :
        LET steps == StepsOf(tlog[t])
        IN  /\ pc[t] \in {"close", "join", "terminate"} => worker_pool = None
            /\ steps # << >> => worker_pool = None
            /\ \/ steps \in {<< >>, <<"close">>, <<"chrome_terminate">>}
               \/ steps = <<"close", "join">>
               \/ steps = <<"close", "join", "terminate">>
                    /\ Failed(tlog[t], "join")
               \/ steps = <<"close", "join", "chrome_terminate">>
                    /\ ~Failed(tlog[t], "join")
               \/ steps = <<"close", "join", "terminate", "chrome_terminate">>
                    /\ Failed(tlog[t], "join")
            /\ (pc[t] \in {"chrome_terminate", "in_chrome_terminate"}
                    /\ steps # << >>) =>
                    \/ steps = <<"close", "join">> /\ ~Failed(tlog[t], "join")
                    \/ steps = <<"close", "join", "terminate">>
            /\ pc[t] = "terminate" =>
                    steps = <<"close", "join">> /\ Failed(tlog[t], "join")

\* A terminate() whose close and join raised has called the forced terminate
\* and then shut the renderer pool down.
C19_Witness ==
    \E t \in Callers :
        /\ pc[t] = "returned"
        /\ call[t].op = "terminate"
        /\ result[t] = "None"
        /\ tlog[t] = <<Call("close", "RuntimeError"), Call("join", "RuntimeError"),
                       Call("terminate", "ok"), Call("chrome_terminate", "ok")>>

\* --------------------------------------------------------------------- C20

\* C20 as claimed: the worker pool has max(max_instances - 1, 1) threads and
\* a task queue of twice as many places, for every number max_instances the
\* constructor is given.
C20_SizedFromArgument ==
    chrome.requested # NoneInstances =>
        /\ pool.processes = Max(chrome.requested - 1, 1)
        /\ pool.max_queued_tasks = 2 * pool.processes

\* The capacity the pools are sized from: the constructor's argument raised
\* to the minimum size of the renderer pool (None counts as below it).
EffectiveCapacity ==
    IF chrome.requested = NoneInstances
       \/ chrome.requested < MIN_CHROME_POOL_INSTANCES
    THEN MIN_CHROME_POOL_INSTANCES
    ELSE chrome.requested

\* C20: the worker pool has max(capacity - 1, 1) threads and a task queue of
\* twice as many places, where capacity is max_instances raised to
\* MIN_CHROME_POOL_INSTANCES; the renderer pool is given that capacity.
C20_WorkerPoolSizing ==
    /\ chrome.max_instances = EffectiveCapacity
    /\ pool.processes = Max(EffectiveCapacity - 1, 1)
    /\ pool.max_queued_tasks = 2 * pool.processes

\* A crawler constructed for 12 renderers has 11 workers and 22 queue places
\* and has accepted the tasks of a crawl.
C20_Witness ==
    /\ chrome.requested = 12
    /\ pool.processes = 11
    /\ pool.max_queued_tasks = 22
    /\ pool.accepted = NStrategies

\* ---------------------------------------------------------------------- C21

\* The workers whose session waits in pool.get() for a renderer.
WaitingWorkers == {s \in running : s.phase = "getting"}

\* C21: with every session on the worker pool, the workers hold fewer
\* renderers than the renderer pool has, so a worker that waits in pool.get()
\* always finds a renderer to take: the workers are never all blocked.
C21_NoPoolStarvation ==
    /\ HeldByWorkers < chrome.max_instances
    /\ WaitingWorkers # {} => CanGet("ok")

\* every worker of the pool holds a renderer while tasks wait in the queue
C21_Witness ==
    /\ HeldByWorkers = pool.processes
    /\ HeldByWorkers = chrome.max_instances - 1
    /\ pool.inqueue # << >>

\* ---------------------------------------------------------------------- C22

\* The tasks the crawl() call of thread t has handed to the worker pool when
\* it returns: the dispatch loop is at strategy idx[t], and the call left it
\* before that strategy's apply_async unless it returned True.
Dispatched(t) ==
    IF idx[t] = 0 THEN 0
    ELSE IF result[t] = "True" THEN idx[t]
    ELSE idx[t] - 1

\* C22: a crawl() call that runs while another thread calls terminate()
\* returns False with nothing dispatched and no URI marked by it, or returns
\* True with every strategy's session dispatched; it never fails on the
\* worker pool reference terminate() has cleared.
C22_CrawlRacingTerminate ==
    \A t \in Callers :
        (pc[t] = "returned" /\ call[t].op = "crawl") =>
            \/ result[t] = "False" /\ Dispatched(t) = 0
            \/ result[t] = "True" /\ Dispatched(t) = NStrategies

\* ---------------------------------------------------------------------- C23

\* C23: has_pending_work() and get_pending_tasks() return without raising in
\* every state of the crawler; until terminate() they give the tasks the
\* worker pool accepted and has not completed, and once terminate() has
\* completed they give False and 0.
C23_IntrospectionSafe ==
    /\ get_pending_tasks.raised = "none"
    /\ has_pending_work.raised = "none"
    /\ get_pending_tasks.value = Pending
    /\ has_pending_work.value = (Pending > 0)
    /\ TerminateCompleted => (get_pending_tasks.value = 0 /\ ~has_pending_work.value)

\* ---------------------------------------------------------------------- C24

\* Thread t is in the dispatch loop of a synchronous crawl().
InSyncLoop(t) ==
    /\ call[t].op = "crawl"
    /\ ~call[t].async
    /\ pc[t] \in {"acquire", "get", "run", "in_remove", "release", "in_release",
                 "put"}

\* The session of thread t begins: its strategy asks for a renderer.
SessionBegins(t) == InSyncLoop(t) /\ pc[t] = "acquire" /\ sess'[t] # sess[t]

\* C24: a synchronous crawl() that passed the gate runs the JS session to its
\* end, then the DOM dump session with the same debugging id, whatever the
\* first session's outcome, and returns True only once both have ended.
C24_SyncFanOut ==
    /\ [](\A t \in Callers :
            /\ InSyncLoop(t) => idx[t] \in 1 .. NStrategies
            /\ (InSyncLoop(t) /\ pc[t] = "run") =>
                    /\ sess[t].phase = "holding"
                    /\ sess[t].strategy = StrategyAt(idx[t])
            /\ (InSyncLoop(t) /\ pc[t] = "acquire" /\ idx[t] > 1) =>
                    /\ Ended(t)
                    /\ sess[t].strategy = StrategyAt(idx[t] - 1)
            /\ (call[t].op = "crawl" /\ ~call[t].async /\ pc[t] = "returned"
                    /\ result[t] # "False") =>
                    /\ result[t] = "True"
                    /\ idx[t] = NStrategies
                    /\ Ended(t)
                    /\ sess[t].strategy = StrategyAt(NStrategies))
    /\ [][\A t \in Callers :
            /\ SessionBegins(t) =>
                    /\ sess'[t].strategy = StrategyAt(idx[t])
                    /\ sess'[t].did = call[t].did
                    /\ idx[t] > 1 => sess'[t].did = sess[t].did
            /\ (InSyncLoop(t) /\ SessionEnds(t)) =>
                    IF idx[t] < NStrategies
                    THEN pc'[t] = "acquire" /\ idx'[t] = idx[t] + 1
                    ELSE pc'[t] = "returned" /\ result'[t] = "True"
            /\ InSyncLoop(t) => call'[t] = call[t]]_vars

\* crawl() has returned True after the DOM dump session, which succeeded;
\* the error on the traffic queue is the hard failure of the JS session.
C24_Witness ==
    /\ ncalls = 1
    /\ pc[1] = "returned"
    /\ result[1] = "True"
    /\ sess[1].strategy = "ChromeCrawlerDOMDump"
    /\ Ended(1)
    /\ sess[1].exc = "none"
    /\ Len(traffic[call[1].q]) = 1
    /\ traffic[call[1].q][1].e = "RuntimeError"
    /\ traffic[call[1].q][1].did = sess[1].did

====
